---- MODULE Spec2Model ----
(***************************************************************************)
(* Model of the Steam Input bridge in src-tauri/src/lib.rs: the session    *)
(* state behind one mutex, the five input commands and the two identity    *)
(* lookups, and the native input subsystem the commands call into.         *)
(***************************************************************************)
EXTENDS Integers, Sequences, FiniteSets, TLC

\* ------------------------------------------------------------------ bounds
NumThreads == 2
MaxControllers == 2
MaxSeed == 2
MaxBind == 2

Threads == 1..NumThreads
Seeds == 0..(MaxSeed - 1)
Bindings == 0..(MaxBind - 1)
\* controller handles the callers pass and the native side enumerates; 0 is invalid
ControllerHandles == {0, 1, 2}

\* ------------------------------------------------- the Action Registry
digital_names ==
  << "confirm", "cancel", "end_turn", "menu",
     "move_up", "move_down", "move_left", "move_right",
     "zoom_in", "zoom_out", "gamepad_drag",
     "cursor_speed_down", "cursor_speed_up" >>

analog_names == << "cursor_move", "map_pan" >>

ActionSetName == "GameControls"

Range(s) == { s[i] : i \in 1..Len(s) }

DigitalNames == Range(digital_names)
AnalogNames == Range(analog_names)

\* ------------------------------------------------------- error strings
ErrPoisoned == "poisoned lock: another task failed inside"
ErrNoSteam == "Steam not initialized"
ErrNotAvailable == "Steam not available"
ErrInitFalse == "SteamAPI_ISteamInput_Init returned false"
ErrNotInitialized == "Steam Input not initialized"

\* --------------------------------------------------- input_type_str
\* steamworks::InputType, in the order of the native enumeration
InputTypes ==
  << "Unknown", "SteamController", "XBox360Controller", "XBoxOneController",
     "GenericGamepad", "PS4Controller", "AppleMFiController", "AndroidController",
     "SwitchJoyConPair", "SwitchJoyConSingle", "SwitchProController",
     "MobileTouch", "PS3Controller", "PS5Controller", "SteamDeckController" >>

TypeCodes == Range(InputTypes)

\* variant: the single joy-con is not folded into "switch"
input_type_str_NoSingleJoyCon(t) ==
  CASE t = "PS4Controller" -> "ps4"
    [] t = "PS5Controller" -> "ps5"
    [] t = "XBox360Controller" -> "xbox360"
    [] t = "XBoxOneController" -> "xbox"
    [] t \in {"SwitchProController", "SwitchJoyConPair"} -> "switch"
    [] t = "SteamDeckController" -> "deck"
    [] t = "SteamController" -> "steam"
    [] OTHER -> "unknown"

input_type_str(t) ==
  CASE t = "PS4Controller" -> "ps4"
    [] t = "PS5Controller" -> "ps5"
    [] t = "XBox360Controller" -> "xbox360"
    [] t = "XBoxOneController" -> "xbox"
    [] t \in {"SwitchProController", "SwitchJoyConPair", "SwitchJoyConSingle"} -> "switch"
    [] t = "SteamDeckController" -> "deck"
    [] t = "SteamController" -> "steam"
    [] OTHER -> "unknown"

\* ------------------------------------------- the native input subsystem
\* What the action manifest currently loaded by the native side declares.
FullManifest == DigitalNames \cup AnalogNames \cup {ActionSetName}
PartialManifest == {ActionSetName, "confirm", "menu", "map_pan"}
ManifestStates == {FullManifest, PartialManifest, {}}

AllNames == <<ActionSetName>> \o digital_names \o analog_names

IndexOf(name) == CHOOSE i \in 1..Len(AllNames) : AllNames[i] = name

\* get_action_set_handle / get_digital_action_handle / get_analog_action_handle:
\* a name the loaded manifest does not declare resolves to the zero handle.
NativeHandle(m, name) == IF name \in m THEN 100 + IndexOf(name) ELSE 0

\* get_connected_controllers: what the native side may enumerate
RECURSIVE SeqsUpTo(_, _)
SeqsUpTo(S, n) ==
  IF n = 0 THEN {<<>>}
  ELSE LET shorter == SeqsUpTo(S, n - 1)
       IN  shorter \cup { Append(s, x) : s \in shorter, x \in S }

NoDupNonzero(s) ==
  \A i, j \in 1..Len(s) : (i # j /\ s[i] # 0) => s[i] # s[j]

ControllerLists == { s \in SeqsUpTo(ControllerHandles, MaxControllers) : NoDupNonzero(s) }

\* get_input_type_for_handle
NativeInputType(sd, h) ==
  IF h = 0 THEN "Unknown" ELSE InputTypes[((h * 5 + sd) % Len(InputTypes)) + 1]

\* get_digital_action_data(..).bState
NativeDigital(sd, h, ah) == ah # 0 /\ h # 0 /\ ((sd + h + ah) % 2 = 0)

\* get_analog_action_data: (x, y), in tenths
NativeAnalog(sd, h, ah) ==
  IF ah = 0 \/ h = 0 THEN <<0, 0>>
  ELSE << ((sd + h + ah) % 5) - 2, ((sd + 2 * h + ah) % 7) - 3 >>

\* get_digital_action_origins: the origins bound to an action on a controller
NativeOrigins(b, h, set, ah) ==
  IF ah = 0 \/ h = 0 \/ set = 0 \/ b = 0 THEN <<>>
  ELSE LET n == (ah + b + h) % 3
           o == (ah + 2 * b + h) % 4
       IN  [ i \in 1..n |-> ((o + i - 1) % 4) + 1 ]

\* get_glyph_for_action_origin: a path, empty when the origin has no glyph
GlyphPaths == << "", "button_a.png", "button_b.png", "" >>
NativeGlyph(origin) == GlyphPaths[origin]

\* ----------------------------------------------------------------- state
VARIABLES
  client,         \* SteamApp present: the native client session was established
  user_name,      \* SteamApp.user_name
  steam_id,       \* SteamApp.steam_id
  input_handles,  \* SteamApp.input_handles: None or InputHandles
  lock,           \* AppState mutex: 0 free, else the thread holding the guard
  poisoned,       \* the mutex is poisoned
  pc,             \* per thread: position inside its command
  frame,          \* per thread: the command's arguments and locals
  lastRet,        \* the return of the last command, until the next one starts
  manifest,       \* native: the manifest the input subsystem has loaded
  connected,      \* native: the controllers as last enumerated
  seed,           \* native: the input data as of the last frame
  bindings,       \* native: the current binding configuration
  init_outcome,   \* of the steam_input_init calls so far: "none", "failed", "ok"
  prev            \* the result of the command just before, if it was a lookup by handle

vars == << client, user_name, steam_id, input_handles, lock, poisoned, pc,
           frame, lastRet, manifest, connected, seed, bindings, init_outcome, prev >>

session == << client, user_name, steam_id, input_handles >>
native == << manifest, connected, seed, bindings >>

None == [ some |-> FALSE ]
Some(v) == [ some |-> TRUE, v |-> v ]

Commands == { "steam_input_init", "steam_input_poll", "steam_input_get_controller_type",
              "steam_input_get_glyphs", "steam_input_show_binding_panel",
              "steam_get_user_name", "steam_get_steam_id" }

NoFrame == [ cmd |-> "", arg |-> 0, calls |-> <<>>, controllers |-> <<>>,
             result |-> <<>>, handles |-> None ]

\* one native call: the operation, its controller and handle arguments, its name
\* argument, and (for the input type query) the code it returned
NativeCall(op, h, ah, name) == [ op |-> op, ctrl |-> h, h |-> ah, name |-> name, out |-> "" ]
NativeCallOut(op, h, ah, name, out) == [ op |-> op, ctrl |-> h, h |-> ah, name |-> name, out |-> out ]

\* Result<T, String> as seen by the caller, with the native calls the command made
Ok(f, v) ==
  [ cmd |-> f.cmd, arg |-> f.arg, ok |-> TRUE, err |-> "", val |-> v, calls |-> f.calls ]

Err(f, e) ==
  [ cmd |-> f.cmd, arg |-> f.arg, ok |-> FALSE, err |-> e, val |-> 0, calls |-> f.calls ]

\* HashMap::new / HashMap::insert
EmptyMap == [ k \in {} |-> 0 ]
Insert(map, k, v) == [ x \in (DOMAIN map) \cup {k} |-> IF x = k THEN v ELSE map[x] ]

NoRet == [ cmd |-> "", arg |-> 0, ok |-> FALSE, err |-> "", val |-> 0, calls |-> <<>> ]

\* the two lookups by controller handle, and what the caller keeps of their result
\* until another command or a native rebinding comes in between
RepeatableCommands == { "steam_input_get_controller_type", "steam_input_get_glyphs" }
NoPrev == [ cmd |-> "", arg |-> 0, val |-> 0 ]
Remember(r) == IF r.ok THEN [ cmd |-> r.cmd, arg |-> r.arg, val |-> r.val ] ELSE NoPrev

\* ------------------------------------------------------------------ run()
Init ==
  /\ client \in BOOLEAN
  /\ user_name = IF client THEN "player" ELSE ""
  /\ steam_id = IF client THEN 76561 ELSE 0
  /\ input_handles = None
  /\ lock = 0
  /\ poisoned = FALSE
  /\ pc = [ t \in Threads |-> "idle" ]
  /\ frame = [ t \in Threads |-> NoFrame ]
  /\ lastRet = NoRet
  /\ manifest = {}
  /\ connected = <<>>
  /\ seed \in Seeds
  /\ bindings \in Bindings
  /\ init_outcome = "none"
  /\ prev = NoPrev

\* an Init call returned an error: recorded unless one has succeeded before
InitFailed(o) == IF o = "ok" THEN "ok" ELSE "failed"

\* --------------------------------------------------------- the mutex
\* variant: lock() does not wait for the guard to be dropped
LockFree_Always == TRUE

\* state.lock(): blocks until no guard is held
LockFree == lock = 0

ArgsOf(c) ==
  IF c \in { "steam_input_get_controller_type", "steam_input_get_glyphs",
             "steam_input_show_binding_panel" }
  THEN ControllerHandles ELSE {0}

\* variant: a poisoned mutex is entered all the same
Acquire_IgnoresPoison(t, c, a) ==
  /\ pc[t] = "idle"
  /\ LockFree
  /\ lock' = t
  /\ pc' = [pc EXCEPT ![t] = c]
  /\ frame' = [frame EXCEPT ![t] = [NoFrame EXCEPT !.cmd = c, !.arg = a]]
  /\ lastRet' = NoRet
  /\ UNCHANGED << session, poisoned, native, init_outcome >>
  /\ prev' = IF c \in RepeatableCommands THEN prev ELSE NoPrev

\* state.lock() returned the guard: the command body starts
Acquire(t, c, a) ==
  /\ pc[t] = "idle"
  /\ LockFree
  /\ ~poisoned
  /\ lock' = t
  /\ pc' = [pc EXCEPT ![t] = c]
  /\ frame' = [frame EXCEPT ![t] = [NoFrame EXCEPT !.cmd = c, !.arg = a]]
  /\ lastRet' = NoRet
  /\ UNCHANGED << session, poisoned, native, init_outcome >>
  /\ prev' = IF c \in RepeatableCommands THEN prev ELSE NoPrev

\* state.lock() returned PoisonError: map_err(|e| e.to_string())?
LockFails(t, c, a) ==
  /\ pc[t] = "idle"
  /\ LockFree
  /\ poisoned
  /\ lastRet' = Err([NoFrame EXCEPT !.cmd = c, !.arg = a], ErrPoisoned)
  /\ init_outcome' = IF c = "steam_input_init" THEN InitFailed(init_outcome) ELSE init_outcome
  /\ UNCHANGED << session, lock, poisoned, pc, frame, native >>
  /\ UNCHANGED prev

\* the command returns r; the guard goes out of scope
Return(t, r) ==
  /\ lastRet' = r
  /\ lock' = 0
  /\ pc' = [pc EXCEPT ![t] = "idle"]
  /\ frame' = [frame EXCEPT ![t] = NoFrame]

\* a native wrapper unwinds while the guard is held: the mutex is poisoned
NativePanic(t) ==
  /\ pc[t] \in { "steam_input_init", "init_resolve", "steam_input_poll", "poll_loop",
                 "steam_input_get_controller_type", "steam_input_get_glyphs",
                 "steam_input_show_binding_panel" }
  /\ client
  /\ pc[t] \in { "steam_input_poll", "steam_input_get_glyphs" } => input_handles.some
  /\ pc[t] = "poll_loop" => frame[t].controllers # <<>>
  /\ poisoned' = TRUE
  /\ lock' = 0
  /\ pc' = [pc EXCEPT ![t] = "idle"]
  /\ frame' = [frame EXCEPT ![t] = NoFrame]
  /\ UNCHANGED << session, lastRet, native, init_outcome >>
  /\ prev' = NoPrev

\* ------------------------------------------------------ steam_input_init
RECURSIVE ResolveAll_SkipLast(_, _, _)
\* variant: the loop stops one name short
ResolveAll_SkipLast(m, names, map) ==
  IF Len(names) <= 1 THEN map
  ELSE ResolveAll_SkipLast(m, Tail(names),
                           Insert(map, Head(names), NativeHandle(m, Head(names))))

RECURSIVE ResolveAll(_, _, _)
\* for name in &digital_names { digital.insert(name, get_digital_action_handle(name)) }
ResolveAll(m, names, map) ==
  IF names = <<>> THEN map
  ELSE ResolveAll(m, Tail(names), Insert(map, Head(names), NativeHandle(m, Head(names))))

ResolveCalls(op, names) == [ i \in 1..Len(names) |-> NativeCall(op, 0, 0, names[i]) ]

\* variant: a failed start drops the cached handles
InitStart_ClearsOnFailure(t) ==
  /\ pc[t] = "steam_input_init"
  /\ IF ~client
     THEN /\ Return(t, Err(frame[t], ErrNotAvailable))
          /\ init_outcome' = InitFailed(init_outcome)
          /\ UNCHANGED << session, poisoned, native >>
     ELSE \E started \in BOOLEAN :
            LET f == [frame[t] EXCEPT !.calls = Append(@, NativeCall("init", 0, 0, ""))]
            IN  IF ~started
                THEN /\ Return(t, Err(f, ErrInitFalse))
                     /\ init_outcome' = InitFailed(init_outcome)
                     /\ input_handles' = None
                     /\ UNCHANGED << client, user_name, steam_id, poisoned, native >>
                ELSE /\ frame' = [frame EXCEPT ![t] = f]
                     /\ pc' = [pc EXCEPT ![t] = "init_resolve"]
                     /\ UNCHANGED << session, lock, poisoned, lastRet, native, init_outcome >>
  /\ UNCHANGED prev

\* guard.as_mut().ok_or(..)?; input.init(false)
InitStart(t) ==
  /\ pc[t] = "steam_input_init"
  /\ IF ~client
     THEN /\ Return(t, Err(frame[t], ErrNotAvailable))
          /\ init_outcome' = InitFailed(init_outcome)
          /\ UNCHANGED << session, poisoned, native >>
     ELSE \E started \in BOOLEAN :
            LET f == [frame[t] EXCEPT !.calls = Append(@, NativeCall("init", 0, 0, ""))]
            IN  IF ~started
                THEN /\ Return(t, Err(f, ErrInitFalse))
                     /\ init_outcome' = InitFailed(init_outcome)
                     /\ UNCHANGED << session, poisoned, native >>
                ELSE /\ frame' = [frame EXCEPT ![t] = f]
                     /\ pc' = [pc EXCEPT ![t] = "init_resolve"]
                     /\ UNCHANGED << session, lock, poisoned, lastRet, native, init_outcome >>
  /\ UNCHANGED prev

\* variant: the handles are resolved before the frame is advanced
InitResolve_FrameAfterResolve(t) ==
  /\ pc[t] = "init_resolve"
  /\ \E exeOk \in BOOLEAN, m \in ManifestStates, sd \in Seeds :
       LET cs == (IF exeOk
                  THEN << NativeCall("set_input_action_manifest_file_path", 0, 0,
                                     "game_actions_X.vdf") >>
                  ELSE <<>>)
                 \o << NativeCall("get_action_set_handle", 0, 0, ActionSetName) >>
                 \o ResolveCalls("get_digital_action_handle", digital_names)
                 \o ResolveCalls("get_analog_action_handle", analog_names)
                 \o << NativeCall("run_frame", 0, 0, "") >>
           hs == [ action_set_game |-> NativeHandle(m, ActionSetName),
                   digital |-> ResolveAll(m, digital_names, EmptyMap),
                   analog |-> ResolveAll(m, analog_names, EmptyMap) ]
       IN  /\ manifest' = m
           /\ seed' = sd
           /\ frame' = [frame EXCEPT ![t].calls = @ \o cs, ![t].handles = Some(hs)]
  /\ pc' = [pc EXCEPT ![t] = "init_store"]
  /\ UNCHANGED << session, lock, poisoned, lastRet, connected, bindings, init_outcome >>
  /\ UNCHANGED prev

\* set_input_action_manifest_file_path, run_frame, then every handle by name
InitResolve(t) ==
  /\ pc[t] = "init_resolve"
  /\ \E exeOk \in BOOLEAN, m \in ManifestStates, sd \in Seeds :
       LET cs == (IF exeOk
                  THEN << NativeCall("set_input_action_manifest_file_path", 0, 0,
                                     "game_actions_X.vdf") >>
                  ELSE <<>>)
                 \o << NativeCall("run_frame", 0, 0, "") >>
                 \o << NativeCall("get_action_set_handle", 0, 0, ActionSetName) >>
                 \o ResolveCalls("get_digital_action_handle", digital_names)
                 \o ResolveCalls("get_analog_action_handle", analog_names)
           hs == [ action_set_game |-> NativeHandle(m, ActionSetName),
                   digital |-> ResolveAll(m, digital_names, EmptyMap),
                   analog |-> ResolveAll(m, analog_names, EmptyMap) ]
       IN  /\ manifest' = m
           /\ seed' = sd
           /\ frame' = [frame EXCEPT ![t].calls = @ \o cs, ![t].handles = Some(hs)]
  /\ pc' = [pc EXCEPT ![t] = "init_store"]
  /\ UNCHANGED << session, lock, poisoned, lastRet, connected, bindings, init_outcome >>
  /\ UNCHANGED prev

\* variant: a name that resolved to the zero handle makes Init fail
InitStore_RejectsInvalid(t) ==
  /\ pc[t] = "init_store"
  /\ LET hs == frame[t].handles.v
         invalid == \/ hs.action_set_game = 0
                    \/ \E n \in DOMAIN hs.digital : hs.digital[n] = 0
                    \/ \E n \in DOMAIN hs.analog : hs.analog[n] = 0
     IN  IF invalid
         THEN /\ Return(t, Err(frame[t], "action handle not found"))
              /\ init_outcome' = InitFailed(init_outcome)
              /\ UNCHANGED input_handles
         ELSE /\ input_handles' = frame[t].handles
              /\ init_outcome' = "ok"
              /\ Return(t, Ok(frame[t], TRUE))
  /\ UNCHANGED << client, user_name, steam_id, poisoned, native >>
  /\ UNCHANGED prev

\* app.input_handles = Some(InputHandles { .. }); Ok(true)
InitStore(t) ==
  /\ pc[t] = "init_store"
  /\ input_handles' = frame[t].handles
  /\ init_outcome' = "ok"
  /\ Return(t, Ok(frame[t], TRUE))
  /\ UNCHANGED << client, user_name, steam_id, poisoned, native >>
  /\ UNCHANGED prev

\* ------------------------------------------------------ steam_input_poll
\* variant: the input_handles check comes before the session check
PollError_HandlesFirst ==
  IF ~input_handles.some THEN ErrNotInitialized
  ELSE IF ~client THEN ErrNotAvailable
  ELSE ""

\* guard.as_ref().ok_or(..)?; app.input_handles.as_ref().ok_or(..)?
PollError ==
  IF ~client THEN ErrNotAvailable
  ELSE IF ~input_handles.some THEN ErrNotInitialized
  ELSE ""

\* variant: the callbacks and the frame run before input_handles is checked
PollStart_CallsFirst(t) ==
  /\ pc[t] = "steam_input_poll"
  /\ IF ~client
     THEN /\ Return(t, Err(frame[t], ErrNotAvailable))
          /\ UNCHANGED << session, poisoned, native, init_outcome >>
     ELSE \E conn \in ControllerLists, sd \in Seeds :
            LET f == [frame[t] EXCEPT
                        !.calls = << NativeCall("run_callbacks", 0, 0, ""),
                                     NativeCall("run_frame", 0, 0, "") >>]
            IN  /\ connected' = conn
                /\ seed' = sd
                /\ IF ~input_handles.some
                   THEN /\ Return(t, Err(f, ErrNotInitialized))
                        /\ UNCHANGED << session, poisoned, manifest, bindings, init_outcome >>
                   ELSE /\ frame' = [frame EXCEPT
                                      ![t].calls = Append(f.calls,
                                         NativeCall("get_connected_controllers", 0, 0, "")),
                                      ![t].controllers = conn,
                                      ![t].result = <<>>]
                        /\ pc' = [pc EXCEPT ![t] = "poll_loop"]
                        /\ UNCHANGED << session, lock, poisoned, lastRet, manifest, bindings,
                                        init_outcome >>
  /\ UNCHANGED prev

\* the ok_or checks, run_callbacks, run_frame, get_connected_controllers
PollStart(t) ==
  /\ pc[t] = "steam_input_poll"
  /\ IF PollError # ""
     THEN /\ Return(t, Err(frame[t], PollError))
          /\ UNCHANGED << session, poisoned, native, init_outcome >>
     ELSE \E conn \in ControllerLists, sd \in Seeds :
            /\ connected' = conn
            /\ seed' = sd
            /\ frame' = [frame EXCEPT
                           ![t].calls = << NativeCall("run_callbacks", 0, 0, ""),
                                           NativeCall("run_frame", 0, 0, ""),
                                           NativeCall("get_connected_controllers", 0, 0, "") >>,
                           ![t].controllers = conn,
                           ![t].result = <<>>]
            /\ pc' = [pc EXCEPT ![t] = "poll_loop"]
            /\ UNCHANGED << session, lock, poisoned, lastRet, manifest, bindings, init_outcome >>
  /\ UNCHANGED prev

\* variant: every digital action is read through the handle of "confirm"
ReadDigital_OneHandle(hdls, sd, handle) ==
  [ name \in DOMAIN hdls.digital |-> NativeDigital(sd, handle, hdls.digital["confirm"]) ]

\* for (name, &ah) in &handles.digital { actions.insert(name, data.bState) }
ReadDigital(hdls, sd, handle) ==
  [ name \in DOMAIN hdls.digital |-> NativeDigital(sd, handle, hdls.digital[name]) ]

\* for (name, &ah) in &handles.analog { analogs.insert(name, [data.x, data.y]) }
ReadAnalog(hdls, sd, handle) ==
  [ name \in DOMAIN hdls.analog |-> NativeAnalog(sd, handle, hdls.analog[name]) ]

\* variant: the digital readings are keyed by the analog map
ControllerState_AnalogKeys(hdls, sd, handle) ==
  [ handle |-> handle,
    input_type |-> input_type_str(NativeInputType(sd, handle)),
    actions |-> [ name \in DOMAIN hdls.analog |-> NativeDigital(sd, handle, hdls.analog[name]) ],
    analogs |-> [ name \in DOMAIN hdls.analog |-> NativeAnalog(sd, handle, hdls.analog[name]) ] ]

\* ControllerState for one controller
ControllerState(hdls, sd, handle) ==
  [ handle |-> handle,
    input_type |-> input_type_str(NativeInputType(sd, handle)),
    actions |-> ReadDigital(hdls, sd, handle),
    analogs |-> ReadAnalog(hdls, sd, handle) ]

\* variant: the action set is activated after the controller has been read
ControllerCalls_ActivateLast(hdls, sd, handle) ==
  << NativeCallOut("get_input_type_for_handle", handle, 0, "", NativeInputType(sd, handle)),
     NativeCall("get_digital_action_data", handle, 0, "*"),
     NativeCall("get_analog_action_data", handle, 0, "*"),
     NativeCall("activate_action_set_handle", handle, hdls.action_set_game, "") >>

\* the native calls of one loop iteration, the two inner loops as one entry each
ControllerCalls(hdls, sd, handle) ==
  << NativeCall("activate_action_set_handle", handle, hdls.action_set_game, ""),
     NativeCallOut("get_input_type_for_handle", handle, 0, "", NativeInputType(sd, handle)),
     NativeCall("get_digital_action_data", handle, 0, "*"),
     NativeCall("get_analog_action_data", handle, 0, "*") >>

\* variant: the zero handle is not skipped
PollController_NoZeroFilter(t) ==
  /\ pc[t] = "poll_loop"
  /\ frame[t].controllers # <<>>
  /\ LET handle == Head(frame[t].controllers)
         hdls == input_handles.v
     IN  frame' = [frame EXCEPT
                     ![t].controllers = Tail(@),
                     ![t].calls = @ \o ControllerCalls(hdls, seed, handle),
                     ![t].result = Append(@, ControllerState(hdls, seed, handle))]
  /\ UNCHANGED << session, lock, poisoned, pc, lastRet, native, init_outcome >>
  /\ UNCHANGED prev

\* one iteration of: for handle in controllers { .. }
PollController(t) ==
  /\ pc[t] = "poll_loop"
  /\ frame[t].controllers # <<>>
  /\ LET handle == Head(frame[t].controllers)
         hdls == input_handles.v
     IN  IF handle = 0
         THEN frame' = [frame EXCEPT ![t].controllers = Tail(@)]
         ELSE frame' = [frame EXCEPT
                          ![t].controllers = Tail(@),
                          ![t].calls = @ \o ControllerCalls(hdls, seed, handle),
                          ![t].result = Append(@, ControllerState(hdls, seed, handle))]
  /\ UNCHANGED << session, lock, poisoned, pc, lastRet, native, init_outcome >>
  /\ UNCHANGED prev

\* Ok(result)
PollReturn(t) ==
  /\ pc[t] = "poll_loop"
  /\ frame[t].controllers = <<>>
  /\ Return(t, Ok(frame[t], frame[t].result))
  /\ UNCHANGED << session, poisoned, native, init_outcome >>
  /\ UNCHANGED prev

\* variant: the lookup advances the native input frame first
GetControllerType_RunsFrame(t) ==
  /\ pc[t] = "steam_input_get_controller_type"
  /\ IF ~client
     THEN /\ Return(t, Err(frame[t], ErrNotAvailable))
          /\ seed' = seed
     ELSE \E sd \in Seeds :
            LET f == [frame[t] EXCEPT !.calls =
                        << NativeCallOut("get_input_type_for_handle", frame[t].arg, 0, "",
                                         NativeInputType(sd, frame[t].arg)) >>]
            IN  /\ seed' = sd
                /\ Return(t, Ok(f, input_type_str(NativeInputType(sd, frame[t].arg))))
  /\ UNCHANGED << session, poisoned, manifest, connected, bindings, init_outcome >>
  /\ prev' = Remember(lastRet')

\* ---------------------------------------- steam_input_get_controller_type
GetControllerType(t) ==
  /\ pc[t] = "steam_input_get_controller_type"
  /\ IF ~client
     THEN Return(t, Err(frame[t], ErrNotAvailable))
     ELSE LET f == [frame[t] EXCEPT !.calls =
                      << NativeCallOut("get_input_type_for_handle", frame[t].arg, 0, "",
                                       NativeInputType(seed, frame[t].arg)) >>]
          IN  Return(t, Ok(f, input_type_str(NativeInputType(seed, frame[t].arg))))
  /\ UNCHANGED << session, poisoned, native, init_outcome >>
  /\ prev' = Remember(lastRet')

\* ------------------------------------------------- steam_input_get_glyphs
\* variant: the last bound origin wins
FirstOrigin_Last(b, hdls, controller_handle, action_handle) ==
  LET origins == NativeOrigins(b, controller_handle, hdls.action_set_game, action_handle)
  IN  IF origins = <<>> THEN None ELSE Some(origins[Len(origins)])

\* origins.first()
FirstOrigin(b, hdls, controller_handle, action_handle) ==
  LET origins == NativeOrigins(b, controller_handle, hdls.action_set_game, action_handle)
  IN  IF origins = <<>> THEN None ELSE Some(origins[1])

RECURSIVE GlyphLoop(_, _, _, _, _)
\* for (action_name, &action_handle) in &hdls.digital { .. }, over the names in any order
GlyphLoop(b, hdls, controller_handle, todo, glyphs) ==
  IF todo = {} THEN glyphs
  ELSE LET action_name == CHOOSE n \in todo : TRUE
           first == FirstOrigin(b, hdls, controller_handle, hdls.digital[action_name])
           path == IF first.some THEN NativeGlyph(first.v) ELSE ""
       IN  GlyphLoop(b, hdls, controller_handle, todo \ {action_name},
                     IF first.some /\ path # ""
                     THEN Insert(glyphs, action_name, path)
                     ELSE glyphs)

\* variant: the handles are taken out of the session while they are read
GetGlyphs_TakesHandles(t) ==
  /\ pc[t] = "steam_input_get_glyphs"
  /\ IF ~client
     THEN Return(t, Err(frame[t], ErrNotAvailable))
     ELSE IF ~input_handles.some
     THEN Return(t, Err(frame[t], ErrNotInitialized))
     ELSE LET hdls == input_handles.v
              f == [frame[t] EXCEPT !.calls =
                      << NativeCall("get_digital_action_origins", frame[t].arg,
                                    hdls.action_set_game, "*"),
                         NativeCall("get_glyph_for_action_origin", frame[t].arg, 0, "*") >>]
          IN  Return(t, Ok(f, GlyphLoop(bindings, hdls, frame[t].arg,
                                        DOMAIN hdls.digital, EmptyMap)))
  /\ input_handles' = IF client THEN None ELSE input_handles
  /\ UNCHANGED << client, user_name, steam_id, poisoned, native, init_outcome >>
  /\ prev' = Remember(lastRet')

\* the ok_or checks, then the loop over the digital handles
GetGlyphs(t) ==
  /\ pc[t] = "steam_input_get_glyphs"
  /\ IF ~client
     THEN Return(t, Err(frame[t], ErrNotAvailable))
     ELSE IF ~input_handles.some
     THEN Return(t, Err(frame[t], ErrNotInitialized))
     ELSE LET hdls == input_handles.v
              f == [frame[t] EXCEPT !.calls =
                      << NativeCall("get_digital_action_origins", frame[t].arg,
                                    hdls.action_set_game, "*"),
                         NativeCall("get_glyph_for_action_origin", frame[t].arg, 0, "*") >>]
          IN  Return(t, Ok(f, GlyphLoop(bindings, hdls, frame[t].arg,
                                        DOMAIN hdls.digital, EmptyMap)))
  /\ UNCHANGED << session, poisoned, native, init_outcome >>
  /\ prev' = Remember(lastRet')

\* ----------------------------------------- steam_input_show_binding_panel
\* variant: the panel is refused until the handles have been resolved
ShowBindingPanel_RequiresInit(t) ==
  /\ pc[t] = "steam_input_show_binding_panel"
  /\ IF ~client
     THEN Return(t, Err(frame[t], ErrNotAvailable))
     ELSE IF ~input_handles.some
     THEN Return(t, Err(frame[t], ErrNotInitialized))
     ELSE \E accepted \in BOOLEAN :
            LET f == [frame[t] EXCEPT !.calls =
                        << NativeCall("show_binding_panel", frame[t].arg, 0, "") >>]
            IN  Return(t, Ok(f, accepted))
  /\ UNCHANGED << session, poisoned, native, init_outcome >>
  /\ UNCHANGED prev

\* the ok_or check, then show_binding_panel(controller_handle)
ShowBindingPanel(t) ==
  /\ pc[t] = "steam_input_show_binding_panel"
  /\ IF ~client
     THEN Return(t, Err(frame[t], ErrNotAvailable))
     ELSE \E accepted \in BOOLEAN :
            LET f == [frame[t] EXCEPT !.calls =
                        << NativeCall("show_binding_panel", frame[t].arg, 0, "") >>]
            IN  Return(t, Ok(f, accepted))
  /\ UNCHANGED << session, poisoned, native, init_outcome >>
  /\ UNCHANGED prev

\* --------------------------------- steam_get_user_name, steam_get_steam_id
GetUserName(t) ==
  /\ pc[t] = "steam_get_user_name"
  /\ IF client
     THEN Return(t, Ok(frame[t], user_name))
     ELSE Return(t, Err(frame[t], ErrNoSteam))
  /\ UNCHANGED << session, poisoned, native, init_outcome >>
  /\ UNCHANGED prev

GetSteamId(t) ==
  /\ pc[t] = "steam_get_steam_id"
  /\ IF client
     THEN Return(t, Ok(frame[t], steam_id))
     ELSE Return(t, Err(frame[t], ErrNoSteam))
  /\ UNCHANGED << session, poisoned, native, init_outcome >>
  /\ UNCHANGED prev

\* ------------------------------------------- the platform overlay rebinds
NativeRebind ==
  /\ \E b \in Bindings : b # bindings /\ bindings' = b
  /\ UNCHANGED << session, lock, poisoned, pc, frame, lastRet, manifest, connected,
                  seed, init_outcome >>
  /\ prev' = NoPrev

Next ==
  \/ \E t \in Threads, c \in Commands : \E a \in ArgsOf(c) : Acquire(t, c, a)
  \/ \E t \in Threads, c \in Commands : \E a \in ArgsOf(c) : LockFails(t, c, a)
  \/ \E t \in Threads : NativePanic(t)
  \/ \E t \in Threads : InitStart(t)
  \/ \E t \in Threads : InitResolve(t)
  \/ \E t \in Threads : InitStore(t)
  \/ \E t \in Threads : PollStart(t)
  \/ \E t \in Threads : PollController(t)
  \/ \E t \in Threads : PollReturn(t)
  \/ \E t \in Threads : GetControllerType(t)
  \/ \E t \in Threads : GetGlyphs(t)
  \/ \E t \in Threads : ShowBindingPanel(t)
  \/ \E t \in Threads : GetUserName(t)
  \/ \E t \in Threads : GetSteamId(t)
  \/ NativeRebind

Spec == Init /\ [][Next]_vars

\* ======================================================= the properties
IsPollRet == lastRet.cmd = "steam_input_poll"
IsInitRet == lastRet.cmd = "steam_input_init"
NeverInitialized == init_outcome # "ok"

\* a step in which t's command returns
Returns(c) == lastRet' # lastRet /\ lastRet'.cmd = c

CacheComplete(c) ==
  /\ c.some
  /\ DOMAIN c.v = {"action_set_game", "digital", "analog"}
  /\ DOMAIN c.v.digital = DigitalNames
  /\ DOMAIN c.v.analog = AnalogNames
  /\ DigitalNames \cap AnalogNames = {}
  /\ Cardinality(DOMAIN c.v.digital) = Len(digital_names)
  /\ Cardinality(DOMAIN c.v.analog) = Len(analog_names)

\* C3: once an Init has succeeded, the Handle Cache holds exactly the digital
\* names in the digital map and exactly the analog names in the analog map,
\* one entry each, together with the one action-set handle.
C3_CacheHoldsRegistry ==
  /\ init_outcome = "ok" => CacheComplete(input_handles)
  /\ input_handles.some => init_outcome = "ok"

C3_Witness ==
  /\ init_outcome = "ok" /\ input_handles.some /\ manifest = PartialManifest
  /\ IsPollRet /\ lastRet.ok

\* C4: every snapshot a Poll returns has a nonzero handle, an actions map
\* keyed by exactly the digital names and an analogs map keyed by exactly
\* the analog names.
C4_SnapshotKeys ==
  (IsPollRet /\ lastRet.ok) =>
     \A i \in 1..Len(lastRet.val) :
        /\ lastRet.val[i].handle # 0
        /\ DOMAIN lastRet.val[i].actions = DigitalNames
        /\ DOMAIN lastRet.val[i].analogs = AnalogNames

C4_Witness ==
  /\ IsPollRet /\ lastRet.ok /\ Len(lastRet.val) = 1
  /\ Len(connected) = 2 /\ 0 \in Range(connected)
  /\ manifest = {}

NonZero(h) == h # 0

\* C5: a successful Poll returns one snapshot per nonzero handle enumerated in
\* that call, in enumeration order, and none for any other handle; a Poll
\* fails only on its precondition checks, so no enumeration (the empty one
\* included) makes it fail.
C5_OneSnapshotPerConnected ==
  IsPollRet =>
     IF lastRet.ok
     THEN /\ Len(lastRet.val) = Len(SelectSeq(connected, NonZero))
          /\ \A i \in 1..Len(lastRet.val) :
                lastRet.val[i].handle = SelectSeq(connected, NonZero)[i]
     ELSE /\ lastRet.calls = <<>>
          /\ lastRet.err \in {ErrPoisoned, ErrNotAvailable, ErrNotInitialized}
          /\ lastRet.err = ErrNotInitialized => ~input_handles.some

C5_Witness ==
  IsPollRet /\ lastRet.ok /\ connected = <<2, 1>> /\ Len(lastRet.val) = 2

C5_WitnessEmpty ==
  IsPollRet /\ lastRet.ok /\ connected = <<>> /\ lastRet.val = <<>>

IsTypeRet == lastRet.cmd = "steam_input_get_controller_type"
SwitchCodes == {"SwitchProController", "SwitchJoyConPair", "SwitchJoyConSingle"}
RecognizedCodes ==
  SwitchCodes \cup {"PS4Controller", "PS5Controller", "XBox360Controller",
                    "XBoxOneController", "SteamDeckController", "SteamController"}

\* C6 as worded: every native input-type code is classified into one of
\* ps4, ps5, xbox360, xbox, switch, steamdeck, steamcontroller, unknown.
C6_ClassifiesIntoSpecEnumeration ==
  (IsTypeRet /\ lastRet.ok) =>
     lastRet.val \in {"ps4", "ps5", "xbox360", "xbox", "switch",
                      "steamdeck", "steamcontroller", "unknown"}

\* C6 amended: the classification is total over the native input-type codes
\* and yields exactly one of ps4, ps5, xbox360, xbox, switch, deck, steam,
\* unknown (the Steam Deck is "deck" and the Steam Controller is "steam"); the
\* three switch variants all yield switch, and every code outside the
\* recognised ones yields unknown. The command fails only when the session is
\* absent or the lock is poisoned, before any native call.
C6_ClassifyTotal ==
  IsTypeRet =>
     IF lastRet.ok
     THEN LET code == lastRet.calls[1].out
          IN  /\ Len(lastRet.calls) = 1
              /\ code \in TypeCodes
              /\ lastRet.val \in {"ps4", "ps5", "xbox360", "xbox", "switch",
                                  "deck", "steam", "unknown"}
              /\ code \in SwitchCodes => lastRet.val = "switch"
              /\ code \notin RecognizedCodes => lastRet.val = "unknown"
     ELSE /\ lastRet.calls = <<>>
          /\ lastRet.err = (IF poisoned THEN ErrPoisoned ELSE ErrNotAvailable)
          /\ ~poisoned => ~client

C6_Witness ==
  /\ IsTypeRet /\ lastRet.ok
  /\ lastRet.calls[1].out = "SwitchJoyConSingle" /\ lastRet.val = "switch"

OriginsOf(controller_handle, name) ==
  NativeOrigins(bindings, controller_handle, input_handles.v.action_set_game,
                input_handles.v.digital[name])

\* C7: the mapping GetGlyphs returns has an entry for a digital action only
\* if the action has a bound origin and the glyph path of its first origin is
\* not empty; the entry is that first origin's path, never the empty string;
\* and the mapping is empty when no action has a binding.
C7_GlyphsFirstOriginOnly ==
  [][ (Returns("steam_input_get_glyphs") /\ lastRet'.ok) =>
        LET glyphs == lastRet'.val
            h == lastRet'.arg
        IN  /\ \A name \in DOMAIN glyphs :
                  /\ name \in DigitalNames
                  /\ OriginsOf(h, name) # <<>>
                  /\ glyphs[name] = NativeGlyph(OriginsOf(h, name)[1])
                  /\ glyphs[name] # ""
            /\ (\A name \in DigitalNames : OriginsOf(h, name) = <<>>) => DOMAIN glyphs = {} ]_vars

C7_Witness ==
  /\ lastRet.cmd = "steam_input_get_glyphs" /\ lastRet.ok
  /\ DOMAIN lastRet.val # {}
  /\ \E name \in DigitalNames \ DOMAIN lastRet.val :
        LET origins == OriginsOf(lastRet.arg, name)
        IN  /\ Len(origins) >= 2
            /\ NativeGlyph(origins[1]) = ""
            /\ NativeGlyph(origins[2]) # ""

\* C8: the Handle Cache is populated once: after the first successful Init
\* no later operation, a second Init included, changes its contents.
C8_CachePopulatedOnce ==
  [][ input_handles.some => input_handles' = input_handles ]_vars

\* C9: when the native input subsystem reports startup failure, Init fails
\* with the start-failure error having made the start call only (no manifest
\* path, no frame, no handle resolution), and leaves the Handle Cache and the
\* native state as they were; after a failed first Init the cache is still
\* absent, so a Poll on a healthy session fails with the not-initialized error.
C9_InitFailureLeavesCache ==
  /\ []( (IsInitRet /\ lastRet.err = ErrInitFalse) =>
            /\ ~lastRet.ok
            /\ lastRet.calls = << NativeCall("init", 0, 0, "") >> )
  /\ []( init_outcome = "failed" =>
            /\ ~input_handles.some
            /\ (IsPollRet /\ client /\ ~poisoned) =>
                  (~lastRet.ok /\ lastRet.err = ErrNotInitialized) )
  /\ [][ (Returns("steam_input_init") /\ lastRet'.err = ErrInitFalse) =>
            (input_handles' = input_handles /\ native' = native) ]_vars

C9_Witness ==
  /\ IsInitRet /\ lastRet.err = ErrInitFalse
  /\ init_outcome = "ok" /\ input_handles.some

\* C10: a thread inside a command holds the session lock from the start of the
\* command body to its return, no other thread is inside a command at the
\* same time, the lock is free whenever no command is running, and the Handle
\* Cache a command reads is absent or complete, never partly written.
C10_LockHeldAcrossCommand ==
  /\ \A t \in Threads :
        pc[t] # "idle" =>
           /\ lock = t
           /\ \A u \in Threads \ {t} : pc[u] = "idle" /\ frame[u] = NoFrame
  /\ \A t \in Threads : pc[t] = "idle" => (frame[t] = NoFrame /\ lock # t)
  /\ input_handles.some => CacheComplete(input_handles)

C10_Witness ==
  \E t \in Threads :
     /\ pc[t] = "poll_loop" /\ lock = t
     /\ Len(frame[t].calls) > 3 /\ frame[t].controllers # <<>>

\* C11: once the session lock is poisoned, every command that takes it returns
\* the lock error, which is none of the session-unavailable, start-failure and
\* not-initialized errors; the command makes no native call and its return
\* changes neither the session, nor the native state, nor the lock.
C11_PoisonedLockFailsDistinctly ==
  /\ []( (poisoned /\ lastRet.cmd # "") =>
            /\ lastRet.cmd \in Commands
            /\ ~lastRet.ok
            /\ lastRet.err = ErrPoisoned
            /\ lastRet.err \notin {ErrNotAvailable, ErrInitFalse, ErrNotInitialized, ErrNoSteam}
            /\ lastRet.calls = <<>> )
  /\ [][ (poisoned /\ lastRet' # lastRet) =>
            /\ session' = session /\ native' = native
            /\ lock' = lock /\ pc' = pc /\ frame' = frame /\ poisoned' ]_vars

C11_Witness ==
  /\ poisoned /\ input_handles.some
  /\ lastRet.cmd = "steam_input_get_glyphs" /\ lastRet.err = ErrPoisoned

\* C12: when ClassifyInputType, or GetGlyphs, is called again with the same
\* controller handle right after a successful call of the same command, with
\* no other command and no native rebinding in between, it returns the same
\* result; and the return of either command leaves the session state and the
\* native state as they were.
C12_RepeatedLookupSameResult ==
  /\ [][ \A c \in RepeatableCommands :
            (Returns(c) /\ lastRet'.ok /\ prev.cmd = c /\ prev.arg = lastRet'.arg) =>
               lastRet'.val = prev.val ]_vars
  /\ [][ \A c \in RepeatableCommands :
            Returns(c) => (session' = session /\ native' = native) ]_vars

C12_Witness ==
  \E t \in Threads :
     /\ pc[t] = "steam_input_get_glyphs"
     /\ prev.cmd = "steam_input_get_glyphs" /\ prev.arg = frame[t].arg
     /\ DOMAIN prev.val # {}

C12_WitnessClassify ==
  \E t \in Threads :
     /\ pc[t] = "steam_input_get_controller_type"
     /\ prev.cmd = "steam_input_get_controller_type" /\ prev.arg = frame[t].arg
     /\ prev.val = "ps4"

Resolved(m) ==
  [ action_set_game |-> IF ActionSetName \in m THEN NativeHandle(m, ActionSetName) ELSE 0,
    digital |-> [ n \in DigitalNames |-> IF n \in m THEN NativeHandle(m, n) ELSE 0 ],
    analog |-> [ n \in AnalogNames |-> IF n \in m THEN NativeHandle(m, n) ELSE 0 ] ]

\* C13: names the loaded manifest does not declare never make Init fail: Init
\* fails only on the lock, the missing session or the native start, before any
\* name is resolved; once the names are resolved it returns Ok(true) and
\* stores the handles as resolved, zero for every undeclared name; and every
\* later Poll on a healthy lock succeeds with the complete registry key sets.
C13_MismatchNeverFailsInit ==
  /\ []( (IsInitRet /\ lastRet.ok) =>
            (lastRet.val = TRUE /\ input_handles = Some(Resolved(manifest))) )
  /\ []( (IsInitRet /\ ~lastRet.ok) =>
            /\ lastRet.err \in {ErrPoisoned, ErrNotAvailable, ErrInitFalse}
            /\ \A i \in 1..Len(lastRet.calls) : lastRet.calls[i].op = "init" )
  /\ []( (IsPollRet /\ init_outcome = "ok" /\ ~poisoned) =>
            /\ lastRet.ok
            /\ \A i \in 1..Len(lastRet.val) :
                  /\ DOMAIN lastRet.val[i].actions = DigitalNames
                  /\ DOMAIN lastRet.val[i].analogs = AnalogNames )
  /\ [][ \A t \in Threads :
            (pc[t] = "init_store" /\ pc'[t] # pc[t]) =>
               (lastRet'.cmd = "steam_input_init" /\ lastRet'.ok) ]_vars

C13_Witness ==
  /\ IsPollRet /\ lastRet.ok /\ Len(lastRet.val) = 2
  /\ input_handles.v.action_set_game = 0
  /\ \A n \in DigitalNames : input_handles.v.digital[n] = 0
  /\ \A n \in AnalogNames : input_handles.v.analog[n] = 0

ReadOps == { "get_input_type_for_handle", "get_digital_action_data", "get_analog_action_data" }

\* C14: the native calls of a successful Poll are, in this order: the client
\* callbacks, the frame advance, the enumeration; then, for each nonzero
\* enumerated handle in turn, the activation of the cached action-set handle
\* on that controller followed by its input type, digital and analog reads.
\* No read of a controller precedes its activation in the same call, and no
\* call is made for the zero handle.
C14_PollCallOrder ==
  (IsPollRet /\ lastRet.ok) =>
     LET cs == lastRet.calls
         hs == SelectSeq(connected, NonZero)
     IN  /\ Len(cs) = 3 + 4 * Len(hs)
         /\ cs[1].op = "run_callbacks"
         /\ cs[2].op = "run_frame"
         /\ cs[3].op = "get_connected_controllers"
         /\ \A i \in 1..Len(hs) :
               LET base == 3 + 4 * (i - 1)
               IN  /\ cs[base + 1].op = "activate_action_set_handle"
                   /\ cs[base + 1].h = input_handles.v.action_set_game
                   /\ cs[base + 2].op = "get_input_type_for_handle"
                   /\ cs[base + 3].op = "get_digital_action_data"
                   /\ cs[base + 4].op = "get_analog_action_data"
                   /\ \A k \in 1..4 : cs[base + k].ctrl = hs[i]
         /\ \A j \in 1..Len(cs) :
               cs[j].op \in ReadOps =>
                  \E k \in 1..(j - 1) :
                     /\ cs[k].op = "activate_action_set_handle"
                     /\ cs[k].ctrl = cs[j].ctrl

C14_Witness ==
  /\ IsPollRet /\ lastRet.ok /\ connected = <<1, 2>>
  /\ Len(lastRet.calls) = 11 /\ lastRet.calls[8].ctrl = 2
  /\ input_handles.v.action_set_game # 0

NumResolved == 1 + Len(digital_names) + Len(analog_names)

\* the calls from index k on are: the frame advance, then the action-set
\* handle, every digital name in declaration order, and the analog names
FrameThenResolves(cs, k) ==
  /\ Len(cs) = k + NumResolved
  /\ cs[k].op = "run_frame"
  /\ cs[k + 1].op = "get_action_set_handle" /\ cs[k + 1].name = ActionSetName
  /\ \A i \in 1..Len(digital_names) :
        /\ cs[k + 1 + i].op = "get_digital_action_handle"
        /\ cs[k + 1 + i].name = digital_names[i]
  /\ \A i \in 1..Len(analog_names) :
        /\ cs[k + 1 + Len(digital_names) + i].op = "get_analog_action_handle"
        /\ cs[k + 1 + Len(digital_names) + i].name = analog_names[i]

\* the Handle Cache changes only in the step that ends an Init whose calls
\* already include every resolution
CacheVisibleAfterResolution ==
  input_handles' # input_handles =>
     \E t \in Threads :
        /\ pc[t] = "init_store" /\ frame[t].cmd = "steam_input_init"
        /\ Len(frame[t].calls) >= 2 + NumResolved
        /\ input_handles' = frame[t].handles
        /\ lastRet'.cmd = "steam_input_init" /\ lastRet'.ok

\* C15 as worded: in every successful Init the start call comes first, the
\* manifest path is configured second, the frame advance third, the handle
\* resolutions after that, and the cache is visible only after them.
C15_ManifestPathAlwaysConfigured ==
  (IsInitRet /\ lastRet.ok) =>
     /\ lastRet.calls[1].op = "init"
     /\ lastRet.calls[2].op = "set_input_action_manifest_file_path"
     /\ FrameThenResolves(lastRet.calls, 3)

\* C15 amended: in every successful Init the start call comes first; the
\* manifest path is configured next when the directory of the running
\* executable can be determined, and that step is skipped otherwise; then one
\* frame is advanced, and only then the action-set handle and every digital
\* and analog handle are resolved; the Handle Cache changes only in the final
\* step of an Init, after all handles have been resolved.
C15_InitCallOrder ==
  /\ []( (IsInitRet /\ lastRet.ok) =>
            /\ lastRet.calls[1].op = "init"
            /\ IF lastRet.calls[2].op = "set_input_action_manifest_file_path"
               THEN FrameThenResolves(lastRet.calls, 3)
               ELSE FrameThenResolves(lastRet.calls, 2) )
  /\ [][ CacheVisibleAfterResolution ]_vars

C15_Witness ==
  /\ IsInitRet /\ lastRet.ok
  /\ lastRet.calls[2].op = "run_frame" /\ Len(lastRet.calls) = 2 + NumResolved

\* C16: every snapshot a successful Poll returns carries, for its own
\* controller handle, the classification of the native type code of that
\* handle, under each digital name the pressed state the native subsystem
\* reports for that controller and the handle cached for that name, and
\* under each analog name the (x, y) pair reported for that controller and
\* the handle cached for that name.
C16_SnapshotValuesFromOwnHandles ==
  (IsPollRet /\ lastRet.ok) =>
     LET hs == SelectSeq(connected, NonZero)
     IN  /\ Len(lastRet.val) = Len(hs)
         /\ \A i \in 1..Len(hs) :
              LET s == lastRet.val[i]
              IN  /\ s.handle = hs[i]
                  /\ s.input_type = input_type_str(NativeInputType(seed, hs[i]))
                  /\ DOMAIN s.actions = DOMAIN input_handles.v.digital
                  /\ \A n \in DOMAIN s.actions :
                       s.actions[n] = NativeDigital(seed, hs[i], input_handles.v.digital[n])
                  /\ DOMAIN s.analogs = DOMAIN input_handles.v.analog
                  /\ \A n \in DOMAIN s.analogs :
                       s.analogs[n] = NativeAnalog(seed, hs[i], input_handles.v.analog[n])

C16_Witness ==
  /\ IsPollRet /\ lastRet.ok /\ Len(lastRet.val) = 2
  /\ \A n \in DigitalNames : input_handles.v.digital[n] # 0
  /\ \E n \in DigitalNames : lastRet.val[1].actions[n] # lastRet.val[2].actions[n]
  /\ \E n, k \in DigitalNames : lastRet.val[1].actions[n] # lastRet.val[1].actions[k]
  /\ lastRet.val[1].analogs # lastRet.val[2].analogs
  /\ lastRet.val[1].input_type # lastRet.val[2].input_type

NonInitPcs == (Commands \ { "steam_input_init" }) \cup { "poll_loop" }

\* C17: every step of Poll, ClassifyInputType, GetGlyphs, ShowBindingPanel
\* and the identity lookups, the failing ones included, leaves the Handle
\* Cache and the identity fields as they were; the Handle Cache changes only
\* in the storing step of an Init, taken while no other command is running;
\* no step changes the identity fields.
C17_OnlyInitWritesSession ==
  [][ /\ user_name' = user_name /\ steam_id' = steam_id
      /\ input_handles' # input_handles =>
            \E t \in Threads :
               /\ pc[t] = "init_store" /\ frame[t].cmd = "steam_input_init" /\ lock = t
               /\ \A u \in Threads \ {t} : pc[u] = "idle"
      /\ \A t \in Threads :
            ( /\ pc[t] \in NonInitPcs \/ pc'[t] \in NonInitPcs
              /\ pc'[t] # pc[t] \/ frame'[t] # frame[t] ) => session' = session
      /\ ( lastRet' # lastRet /\ lastRet'.cmd \in Commands \ { "steam_input_init" } )
            => session' = session ]_vars

C17_Witness ==
  /\ lastRet.cmd = "steam_input_get_glyphs" /\ lastRet.ok /\ DOMAIN lastRet.val # {}
  /\ input_handles.some /\ init_outcome = "ok"

\* C18: the session lifecycle is monotonic: once an Init has succeeded the
\* Handle Cache is present in every later state, no step (a later failing
\* Init included) takes it away, so no later Poll or GetGlyphs returns the
\* not-initialized error; and whether the client session exists never changes.
C18_LifecycleMonotonic ==
  /\ []( init_outcome = "ok" => input_handles.some )
  /\ []( ( init_outcome = "ok"
           /\ lastRet.cmd \in { "steam_input_poll", "steam_input_get_glyphs" } )
         => lastRet.err # ErrNotInitialized )
  /\ [][ /\ input_handles.some => input_handles'.some
         /\ init_outcome = "ok" => init_outcome' = "ok"
         /\ client' = client ]_vars

C18_Witness ==
  /\ IsInitRet /\ ~lastRet.ok /\ lastRet.err \in { ErrInitFalse, ErrPoisoned }
  /\ init_outcome = "ok" /\ client
  /\ input_handles.some /\ input_handles.v.action_set_game # 0

NeedNoInit == { "steam_input_get_controller_type", "steam_input_show_binding_panel" }
NeedInit == { "steam_input_poll", "steam_input_get_glyphs" }

\* C19: ClassifyInputType and ShowBindingPanel do not require Init: with the
\* client session established and the lock available they make their one
\* native call and return a success value, also while the Handle Cache is
\* absent; they fail, without a native call, only when the session is absent
\* or the lock is unavailable.  Poll and GetGlyphs, with the session
\* established and the lock available but the Handle Cache absent, fail with
\* the not-initialized error.
C19_InitNotRequired ==
  /\ lastRet.cmd \in NeedNoInit =>
        IF lastRet.ok
        THEN client /\ Len(lastRet.calls) = 1
        ELSE /\ lastRet.calls = <<>>
             /\ lastRet.err \in { ErrNotAvailable, ErrPoisoned }
             /\ lastRet.err = ErrNotAvailable => ~client
             /\ lastRet.err = ErrPoisoned => poisoned
  /\ ( lastRet.cmd \in NeedInit /\ client /\ ~input_handles.some
       /\ lastRet.err # ErrPoisoned )
        => ~lastRet.ok /\ lastRet.err = ErrNotInitialized /\ lastRet.calls = <<>>

C19_Witness ==
  /\ lastRet.cmd = "steam_input_show_binding_panel" /\ lastRet.ok
  /\ ~input_handles.some /\ init_outcome = "failed"

C19_WitnessClassify ==
  /\ lastRet.cmd = "steam_input_get_controller_type" /\ lastRet.ok
  /\ ~input_handles.some /\ lastRet.arg # 0

C19_WitnessNotInitialized ==
  /\ lastRet.cmd = "steam_input_get_glyphs" /\ lastRet.err = ErrNotInitialized
  /\ client /\ ~input_handles.some

\* ---------------------- the classifier over every native input-type code
TypeSeeds == 0..(Len(InputTypes) - 1)

InitClassify ==
  /\ client \in BOOLEAN
  /\ user_name = IF client THEN "player" ELSE ""
  /\ steam_id = IF client THEN 76561 ELSE 0
  /\ input_handles = None
  /\ lock = 0
  /\ poisoned = FALSE
  /\ pc = [ t \in Threads |-> "idle" ]
  /\ frame = [ t \in Threads |-> NoFrame ]
  /\ lastRet = NoRet
  /\ manifest = {}
  /\ connected = <<>>
  /\ seed \in TypeSeeds
  /\ bindings \in Bindings
  /\ init_outcome = "none"
  /\ prev = NoPrev

NextClassify ==
  \/ \E t \in Threads, a \in ControllerHandles :
        Acquire(t, "steam_input_get_controller_type", a)
  \/ \E t \in Threads : GetControllerType(t)

SpecClassify == InitClassify /\ [][NextClassify]_vars

TypeOK ==
  /\ client \in BOOLEAN
  /\ lock \in {0} \cup Threads
  /\ poisoned \in BOOLEAN
  /\ manifest \in ManifestStates
  /\ connected \in ControllerLists
  /\ bindings \in Bindings
  /\ init_outcome \in {"none", "failed", "ok"}

====
